---- MODULE Spec2Model ----
(***************************************************************************)
(* Access-grant workflow of the certificate verification application.      *)
(*                                                                         *)
(* The remote document store holds three collections: students,            *)
(* certificates and accessRequests.  Browser sessions act on it:           *)
(*   - company dashboard sessions (CompanyDashboard): select a student,    *)
(*     read the student's certificates, send an access request;            *)
(*   - a company requests session (CompanyRequests): list the company's    *)
(*     requests and read the certificates of the approved ones;            *)
(*   - a student requests session (StudentRequests): approve, deny and     *)
(*     revoke.                                                             *)
(* Every await of a handler is a point where other sessions may act, so a  *)
(* handler is split into one action per remote call whose result depends   *)
(* on the accessRequests collection.  Every remote call may fail (ok).     *)
(*                                                                         *)
(* The authentication service holds the accounts, the collection 'users'   *)
(* the role of each principal, the file store the uploaded files.  The     *)
(* AuthProvider of a tab keeps user, userRole and loading and listens to    *)
(* the changes of the browser's signed-in principal; the entry screen      *)
(* signs up and signs in; the school pages enroll students and issue       *)
(* certificates.                                                           *)
(*                                                                         *)
(* Specifications:                                                         *)
(*   Spec        one company dashboard, the company requests page and the  *)
(*               student answering one request at a time;                  *)
(*   SpecRace    two company dashboards submitting concurrently;           *)
(*   SpecStudent the student requests page with overlapping handlers, on   *)
(*               a store that already holds unanswered requests;           *)
(*   SpecAuth    sign-up, sign-in, logout and the auth listener in one     *)
(*               tab, starting with no account;                            *)
(*   SpecSchool  a signed-in school on its enroll and upload pages;        *)
(*   SpecSwitch  a school page in one tab while another principal signs in *)
(*               in a second tab of the same browser;                      *)
(*   SpecShared  Spec on a store where two StudentRecords share an email;  *)
(*   SpecPage    one tab with the company dashboard and its search form,   *)
(*               or with the upload page;                                  *)
(*   SpecSort    the sorted request lists of the student page and of the   *)
(*               company page over one snapshot of requests;               *)
(*   SpecStudentSwitch  the student requests page in one tab while another *)
(*               principal signs in in a second tab of the same browser.   *)
(***************************************************************************)
EXTENDS Integers, Sequences, FiniteSets, TLC

\* ------------------------------------------------------------------ bounds
\* cap on the number of accessRequests documents ever created
MaxGrants == 2
\* cap on the approve/deny/revoke calls one student session has in flight
MaxInflight == 2
\* cap on the listener callbacks and on the fetchStudents calls a tab has in
\* flight
MaxPending == 1
\* cap on the number of students documents the enroll page creates
MaxStudents == 2
\* cap on the number of certificates documents ever created and on the
\* number of uploads started
MaxCerts == 2
\* cap on the onSelectStudent calls a dashboard tab has in flight
MaxFetches == 2
\* cap on the number of accessRequests documents in a snapshot that is sorted
MaxSortDocs == 2

\* ------------------------------------------------------------- principals
Companies == {"c1", "c2"}
Tabs == {"t1", "t2"}
StudentUsers == {"u1"}
\* email of the signed-in student principal (user.email)
UserEmail == [u \in StudentUsers |-> "e1"]

\* absent document id (document ids are 1, 2, ...)
NoId == 0
Absent == "absent"
\* value of new Date().toISOString(): only its presence is modelled
Timestamp == "ts"

Statuses == {"pending", "approved", "denied", "revoked"}

\* emails of the sign-up form and the uid the authentication service gives
\* the account of each (one account per email, accounts are never deleted)
Emails == {"e1", "e2"}
UidOf == ("e1" :> "p1") @@ ("e2" :> "p2")
Uids == {UidOf[e] : e \in Emails}
\* type UserRole without null
Roles == {"school", "student", "company"}
\* user === null, userRole === null
NoUser == "none"
NoRole == "null"
\* location of a tab that shows no page of the application
Closed == "closed"

VARIABLES
    students,            \* collection 'students'   : Seq of records, id = index
    certificates,        \* collection 'certificates': Seq of records, id = index
    grants,              \* collection 'accessRequests': Seq of records, id = index
    user,                \* company principal signed in on each dashboard tab
    selectedStudent,     \* CompanyDashboard state, per tab
    studentCertificates, \* CompanyDashboard state, per tab (set of certificate ids)
    isRequesting,        \* CompanyDashboard state, per tab
    sendReq,             \* position and closure of the tab's onSendRequest call
    toast,               \* last notification shown on the tab
    crUser,              \* company principal of the CompanyRequests session
    crRequests,          \* CompanyRequests state 'requests' (id -> status)
    crCertificates,      \* CompanyRequests state 'certificates' (studentId -> ids)
    crPc,                \* position of the CompanyRequests loader
    requests,            \* StudentRequests state 'requests' (id -> status), per user
    isLoading,           \* StudentRequests state, per user
    calls,               \* StudentRequests handlers awaiting updateDoc, per user
    accounts,            \* authentication service: the registered emails
    users,               \* collection 'users': uid -> [email, role]
    files,               \* file store: path -> bytes
    authUser,            \* the browser's signed-in principal (auth.currentUser)
    ctxUser,             \* AuthProvider state 'user', per tab
    userRole,            \* AuthProvider state 'userRole', per tab
    loading,             \* AuthProvider state 'loading', per tab
    location,            \* window.location.pathname, per tab
    roleFetch,           \* listener callbacks awaiting getDoc('users'), per tab
    authCall,            \* position and closure of the tab's signUp / signIn call
    authError,           \* Home state 'error', per tab
    uuids,               \* number of uuidv4() values drawn so far
    upStudents,          \* UploadCertificate state 'students' (ids), per tab
    upLoading,           \* UploadCertificate state 'isLoading', per tab
    isUploading,         \* UploadCertificate state 'isUploading', per tab
    stuFetch,            \* fetchStudents calls awaiting getDocs, per tab
    upload,              \* position and closure of the tab's upload onSubmit call
    enrollCall,          \* enroll onSubmit calls awaiting addDoc, per tab
    reqFetch,            \* fetchRequests calls of the student requests page in a tab
    searchResults,       \* CompanyDashboard state 'searchResults' (ids), per tab
    isSearching,         \* CompanyDashboard state, per tab
    isFetchingCertificates, \* CompanyDashboard state, per tab
    searchCall,          \* search form value and position of the tab's onSearch call
    certFetch,           \* onSelectStudent calls awaiting getDocs, per tab
    sortDocs,            \* snapshot of accessRequests documents, in document order
    stuView,             \* list rendered by StudentRequests for that snapshot
    crView               \* list rendered by CompanyRequests for that snapshot

storeVars == <<students, certificates, grants>>
dashVars == <<user, selectedStudent, studentCertificates, isRequesting, sendReq, toast>>
crVars == <<crUser, crRequests, crCertificates, crPc>>
stuVars == <<requests, isLoading, calls>>
remoteVars == <<accounts, users, files, authUser>>
authVars == <<ctxUser, userRole, loading, location, roleFetch, authCall, authError>>
schVars == <<uuids, upStudents, upLoading, isUploading, stuFetch, upload, enrollCall,
             reqFetch>>
srchVars == <<searchResults, isSearching, isFetchingCertificates, searchCall, certFetch>>
sortVars == <<sortDocs, stuView, crView>>
pageVars == <<srchVars, sortVars>>
newVars == <<remoteVars, authVars, schVars, pageVars>>
vars == <<storeVars, dashVars, crVars, stuVars, newVars>>

\* ---------------------------------------------------------------- queries
StudentIds == 1..Len(students)
GrantIds == 1..Len(grants)
CertIds == 1..Len(certificates)

\* query(collection 'certificates', where studentId == s)
CertificatesOf(s) == {k \in CertIds : certificates[k].studentId = s}

\* variant of ExistingRequestQuery: the status filter is misspelt
ExistingRequestQueryMisspelt(c, s) ==
    {g \in GrantIds : /\ grants[g].companyId = c
                      /\ grants[g].studentId = s
                      /\ grants[g].status = "Pending"}

\* variant of ExistingRequestQuery: the status filter is missing
ExistingRequestQueryAnyStatus(c, s) ==
    {g \in GrantIds : /\ grants[g].companyId = c
                      /\ grants[g].studentId = s}

\* query(accessRequests, companyId == c, studentId == s, status == 'pending')
ExistingRequestQuery(c, s) ==
    {g \in GrantIds : /\ grants[g].companyId = c
                      /\ grants[g].studentId = s
                      /\ grants[g].status = "pending"}

\* query(accessRequests, companyId == c)
CompanyRequestsQuery(c) == {g \in GrantIds : grants[g].companyId = c}

\* query(students, email == e), then docs[0].id; NoId when the snapshot is empty
StudentDocOf(e) ==
    LET ms == {s \in StudentIds : students[s].email = e}
    IN IF ms = {} THEN NoId ELSE CHOOSE s \in ms : \A o \in ms : s <= o

\* query(accessRequests, studentId == s)
StudentRequestsQuery(s) == {g \in GrantIds : grants[g].studentId = s}

EmptyView == [g \in {} |-> "pending"]
NoCall == [pc |-> "idle", student |-> NoId]

\* ------------------------------------------------------------------- Init
InitStore ==
    /\ students = << [email |-> "e1", schoolId |-> "sch1"],
                     [email |-> "e2", schoolId |-> "sch1"] >>
    /\ certificates = << [studentId |-> 1, fileHash |-> "h1", schoolId |-> "sch1"],
                         [studentId |-> 1, fileHash |-> "h2", schoolId |-> "sch1"],
                         [studentId |-> 2, fileHash |-> "h3", schoolId |-> "sch1"] >>

\* searchForm with its default value, no search and no certificates read in
\* flight
NoSearch == [pc |-> "idle", query |-> << >>, form |-> << >>]

InitSearch ==
    /\ searchResults = [t \in Tabs |-> {}]
    /\ isSearching = [t \in Tabs |-> FALSE]
    /\ isFetchingCertificates = [t \in Tabs |-> FALSE]
    /\ searchCall = [t \in Tabs |-> NoSearch]
    /\ certFetch = [t \in Tabs |-> << >>]

\* the dashboard, the company requests page and the student requests page
\* before anything is loaded in them
InitViews ==
    /\ selectedStudent = [t \in Tabs |-> NoId]
    /\ studentCertificates = [t \in Tabs |-> {}]
    /\ isRequesting = [t \in Tabs |-> FALSE]
    /\ sendReq = [t \in Tabs |-> NoCall]
    /\ toast = [t \in Tabs |-> "none"]
    /\ crUser = "c1"
    /\ crRequests = EmptyView
    /\ crCertificates = [s \in {} |-> {}]
    /\ crPc = "idle"
    /\ requests = [u \in StudentUsers |-> EmptyView]
    /\ isLoading = [u \in StudentUsers |-> TRUE]
    /\ calls = [u \in StudentUsers |-> << >>]
    /\ InitSearch

InitPages ==
    /\ InitViews
    /\ sortDocs = << >>
    /\ stuView = << >>
    /\ crView = << >>

NoAuthCall == [pc |-> "idle", op |-> "none", email |-> "none", role |-> NoRole]
NoUpload == [pc |-> "idle"]

\* the tabs of the entry screen and of the school pages before anything is
\* loaded in them
InitTabs ==
    /\ loading = [t \in Tabs |-> FALSE]
    /\ roleFetch = [t \in Tabs |-> << >>]
    /\ authCall = [t \in Tabs |-> NoAuthCall]
    /\ authError = [t \in Tabs |-> ""]
    /\ uuids = 0
    /\ upStudents = [t \in Tabs |-> {}]
    /\ upLoading = [t \in Tabs |-> TRUE]
    /\ isUploading = [t \in Tabs |-> FALSE]
    /\ stuFetch = [t \in Tabs |-> << >>]
    /\ reqFetch = [t \in Tabs |-> << >>]
    /\ upload = [t \in Tabs |-> NoUpload]
    /\ enrollCall = [t \in Tabs |-> << >>]

\* the entry screen and the school pages are not used
InitNoSchool ==
    /\ ctxUser = [t \in Tabs |-> NoUser]
    /\ userRole = [t \in Tabs |-> NoRole]
    /\ location = [t \in Tabs |-> Closed]
    /\ accounts = {}
    /\ users = [u \in {} |-> [email |-> "none", role |-> NoRole]]
    /\ files = [f \in {} |-> << >>]
    /\ authUser = NoUser
    /\ InitTabs

\* two students enrolled, three certificates issued, company c1 signed in
Init ==
    /\ InitStore
    /\ grants = << >>
    /\ InitPages
    /\ InitNoSchool
    /\ user = [t \in Tabs |-> "c1"]

\* the requests stored after n submissions for n different (company, student)
\* pairs, none of them answered yet
PendingRequests ==
    LET pairs == Companies \X {1, 2}
        seqs == UNION {[1..n -> pairs] : n \in 1..MaxGrants}
        distinct == {q \in seqs : \A i, j \in DOMAIN q : i # j => q[i] # q[j]}
    IN {[i \in DOMAIN q |->
            [companyId |-> q[i][1], studentId |-> q[i][2], status |-> "pending",
             requestDate |-> Timestamp, responseDate |-> Absent,
             revokedDate |-> Absent]] : q \in distinct}

\* the student opens the requests page with unanswered requests in the store
InitStudent ==
    /\ InitStore
    /\ grants \in PendingRequests
    /\ InitPages
    /\ InitNoSchool
    /\ user = [t \in Tabs |-> "c1"]

\* the second dashboard tab is signed in as the same or as another company
InitRace ==
    /\ InitStore
    /\ grants = << >>
    /\ InitPages
    /\ InitNoSchool
    /\ user \in {[t \in Tabs |-> "c1"], ("t1" :> "c1") @@ ("t2" :> "c2")}

\* ------------------------------------------------ CompanyDashboard (tab t)
\* onSelectStudent(student): the student is one of the listed search
\* results, which the page lists only while no student is selected.  The
\* certificates query carries no condition on accessRequests.
OnSelectStudent(t, s, ok) ==
    /\ selectedStudent[t] = NoId
    /\ s \in StudentIds
    /\ selectedStudent' = [selectedStudent EXCEPT ![t] = s]
    /\ IF ok
       THEN /\ studentCertificates' = [studentCertificates EXCEPT ![t] = CertificatesOf(s)]
            /\ toast' = toast
       ELSE /\ studentCertificates' = studentCertificates
            /\ toast' = [toast EXCEPT ![t] = "loadFailed"]
    /\ UNCHANGED <<storeVars, user, isRequesting, sendReq, crVars, stuVars, newVars>>

\* 'Back to Search' button: setSelectedStudent(null)
BackToSearch(t) ==
    /\ selectedStudent[t] # NoId
    /\ selectedStudent' = [selectedStudent EXCEPT ![t] = NoId]
    /\ UNCHANGED <<storeVars, user, studentCertificates, isRequesting, sendReq,
                   toast, crVars, stuVars, newVars>>

\* onSendRequest, up to the first await: the submit button is disabled while
\* isRequesting; the closure keeps the student selected at submission time.
OnSendRequest(t) ==
    /\ selectedStudent[t] # NoId
    /\ ~isRequesting[t]
    /\ sendReq[t].pc = "idle"
    /\ isRequesting' = [isRequesting EXCEPT ![t] = TRUE]
    /\ sendReq' = [sendReq EXCEPT ![t] = [pc |-> "check", student |-> selectedStudent[t]]]
    /\ UNCHANGED <<storeVars, user, selectedStudent, studentCertificates, toast,
                   crVars, stuVars, newVars>>

\* the catch and finally blocks of onSendRequest
RequestFailed(t) ==
    /\ toast' = [toast EXCEPT ![t] = "requestFailed"]
    /\ isRequesting' = [isRequesting EXCEPT ![t] = FALSE]
    /\ sendReq' = [sendReq EXCEPT ![t] = NoCall]
    /\ UNCHANGED <<storeVars, user, selectedStudent, studentCertificates, crVars, stuVars, newVars>>

\* variant of OnSendRequestCheck: the early return is missing
OnSendRequestCheckNoReturn(t, ok) ==
    /\ sendReq[t].pc = "check"
    /\ IF ~ok
       THEN RequestFailed(t)
       ELSE /\ sendReq' = [sendReq EXCEPT ![t].pc = "insert"]
            /\ IF ExistingRequestQuery(user[t], sendReq[t].student) # {}
               THEN toast' = [toast EXCEPT ![t] = "alreadyExists"]
               ELSE toast' = toast
            /\ UNCHANGED <<storeVars, user, selectedStudent, studentCertificates,
                           isRequesting, crVars, stuVars, newVars>>

\* onSendRequest resumes with the snapshot of the existing-request query
OnSendRequestCheck(t, ok) ==
    /\ sendReq[t].pc = "check"
    /\ IF ~ok
       THEN RequestFailed(t)
       ELSE IF ExistingRequestQuery(user[t], sendReq[t].student) # {}
       THEN /\ toast' = [toast EXCEPT ![t] = "alreadyExists"]
            /\ isRequesting' = [isRequesting EXCEPT ![t] = FALSE]
            /\ sendReq' = [sendReq EXCEPT ![t] = NoCall]
            /\ UNCHANGED <<storeVars, user, selectedStudent, studentCertificates,
                           crVars, stuVars, newVars>>
       ELSE /\ sendReq' = [sendReq EXCEPT ![t].pc = "insert"]
            /\ UNCHANGED <<storeVars, user, selectedStudent, studentCertificates,
                           isRequesting, toast, crVars, stuVars, newVars>>

\* the document written by addDoc(collection 'accessRequests')
NewRequest(c, s) ==
    [companyId |-> c, studentId |-> s, status |-> "pending",
     requestDate |-> Timestamp, responseDate |-> Absent, revokedDate |-> Absent]

\* variant of OnSendRequestInsert: the insert is refused when a pending
\* request of the pair is stored by then
OnSendRequestInsertGuarded(t, ok) ==
    /\ sendReq[t].pc = "insert"
    /\ ok => Len(grants) < MaxGrants
    /\ IF ~ok
       THEN RequestFailed(t)
       ELSE IF \E g \in GrantIds : /\ grants[g].companyId = user[t]
                                   /\ grants[g].studentId = sendReq[t].student
                                   /\ grants[g].status = "pending"
       THEN /\ toast' = [toast EXCEPT ![t] = "alreadyExists"]
            /\ isRequesting' = [isRequesting EXCEPT ![t] = FALSE]
            /\ sendReq' = [sendReq EXCEPT ![t] = NoCall]
            /\ UNCHANGED <<storeVars, user, selectedStudent, studentCertificates,
                           crVars, stuVars, newVars>>
       ELSE /\ grants' = Append(grants, [companyId |-> user[t],
                                         studentId |-> sendReq[t].student,
                                         status |-> "pending",
                                         requestDate |-> Timestamp,
                                         responseDate |-> Absent,
                                         revokedDate |-> Absent])
            /\ toast' = [toast EXCEPT ![t] = "sent"]
            /\ selectedStudent' = [selectedStudent EXCEPT ![t] = NoId]
            /\ studentCertificates' = [studentCertificates EXCEPT ![t] = {}]
            /\ isRequesting' = [isRequesting EXCEPT ![t] = FALSE]
            /\ sendReq' = [sendReq EXCEPT ![t] = NoCall]
            /\ searchResults' = [searchResults EXCEPT ![t] = {}]
            /\ searchCall' = [searchCall EXCEPT ![t].form = << >>]
            /\ UNCHANGED <<students, certificates, user, crVars, stuVars, remoteVars,
                           authVars, schVars, sortVars, isSearching,
                           isFetchingCertificates, certFetch>>

\* onSendRequest resumes after the pre-check: company details are read from
\* 'users' (no effect on this state), then addDoc; any of the two may throw.
\* With MaxGrants documents stored the call can only fail.  After the insert
\* the selection, the search results, the certificates and both forms are
\* reset.
OnSendRequestInsert(t, ok) ==
    /\ sendReq[t].pc = "insert"
    /\ ok => Len(grants) < MaxGrants
    /\ IF ~ok
       THEN RequestFailed(t)
       ELSE /\ grants' = Append(grants, NewRequest(user[t], sendReq[t].student))
            /\ toast' = [toast EXCEPT ![t] = "sent"]
            /\ selectedStudent' = [selectedStudent EXCEPT ![t] = NoId]
            /\ studentCertificates' = [studentCertificates EXCEPT ![t] = {}]
            /\ isRequesting' = [isRequesting EXCEPT ![t] = FALSE]
            /\ sendReq' = [sendReq EXCEPT ![t] = NoCall]
            /\ searchResults' = [searchResults EXCEPT ![t] = {}]
            /\ searchCall' = [searchCall EXCEPT ![t].form = << >>]
            /\ UNCHANGED <<students, certificates, user, crVars, stuVars, remoteVars,
                           authVars, schVars, sortVars, isSearching,
                           isFetchingCertificates, certFetch>>

\* ------------------------------------- CompanyDashboard, search and select
\* values typed into the search field, as sequences of characters
Terms == {<<"e", "1">>, <<" ", "s", "1", " ">>, <<"e", " ", "1">>, <<" ">>}

\* String.prototype.trimStart
RECURSIVE TrimStart(_)
TrimStart(q) == IF q # << >> /\ Head(q) = " " THEN TrimStart(Tail(q)) ELSE q

\* String.prototype.trimEnd
RECURSIVE TrimEnd(_)
TrimEnd(q) ==
    IF q # << >> /\ q[Len(q)] = " " THEN TrimEnd(SubSeq(q, 1, Len(q) - 1)) ELSE q

\* variant of Trim: only the leading white space is removed
TrimStartOnly(q) == TrimStart(q)

\* values.searchQuery.trim()
Trim(q) == TrimEnd(TrimStart(q))

\* the string of a sequence of characters
RECURSIVE JoinChars(_)
JoinChars(q) == IF q = << >> THEN "" ELSE Head(q) \o JoinChars(Tail(q))

\* query(students, email == term)
EmailQuery(term) == {s \in StudentIds : students[s].email = term}

\* query(students, studentId == term)
StudentIdQuery(term) == {s \in StudentIds : students[s].studentId = term}

\* onSearch up to the first await: the handler returns without a user, the
\* Search button is disabled while isSearching; results, selection and
\* certificates are cleared
OnSearch(t, q) ==
    /\ q \in Terms
    /\ user[t] \in Companies
    /\ ~isSearching[t]
    /\ isSearching' = [isSearching EXCEPT ![t] = TRUE]
    /\ searchResults' = [searchResults EXCEPT ![t] = {}]
    /\ selectedStudent' = [selectedStudent EXCEPT ![t] = NoId]
    /\ studentCertificates' = [studentCertificates EXCEPT ![t] = {}]
    /\ searchCall' = [searchCall EXCEPT ![t] = [pc |-> "email", query |-> q, form |-> q]]
    /\ UNCHANGED <<storeVars, user, isRequesting, sendReq, toast, crVars, stuVars,
                   remoteVars, authVars, schVars, sortVars, isFetchingCertificates,
                   certFetch>>

\* onSearch has come to its end: the finally block
SearchDone(t) ==
    /\ isSearching' = [isSearching EXCEPT ![t] = FALSE]
    /\ searchCall' = [searchCall EXCEPT ![t].pc = "idle", ![t].query = << >>]

\* the catch and finally blocks of onSearch
SearchFailed(t) ==
    /\ toast' = [toast EXCEPT ![t] = "searchFailed"]
    /\ SearchDone(t)
    /\ UNCHANGED searchResults

\* onSearch resumes with the snapshot of the query by email
OnSearchEmail(t, ok) ==
    /\ searchCall[t].pc = "email"
    /\ LET found == EmailQuery(JoinChars(Trim(searchCall[t].query)))
       IN IF ~ok
          THEN SearchFailed(t)
          ELSE IF found = {}
          THEN /\ searchCall' = [searchCall EXCEPT ![t].pc = "id"]
               /\ UNCHANGED <<searchResults, isSearching, toast>>
          ELSE /\ searchResults' = [searchResults EXCEPT ![t] = found]
               /\ SearchDone(t)
               /\ toast' = toast
    /\ UNCHANGED <<storeVars, user, selectedStudent, studentCertificates, isRequesting,
                   sendReq, crVars, stuVars, remoteVars, authVars, schVars, sortVars,
                   isFetchingCertificates, certFetch>>

\* onSearch resumes with the snapshot of the query by student ID
OnSearchId(t, ok) ==
    /\ searchCall[t].pc = "id"
    /\ IF ~ok
       THEN SearchFailed(t)
       ELSE /\ searchResults' = [searchResults EXCEPT ![t] =
                                   StudentIdQuery(JoinChars(Trim(searchCall[t].query)))]
            /\ SearchDone(t)
            /\ toast' = toast
    /\ UNCHANGED <<storeVars, user, selectedStudent, studentCertificates, isRequesting,
                   sendReq, crVars, stuVars, remoteVars, authVars, schVars, sortVars,
                   isFetchingCertificates, certFetch>>

\* onSelectStudent(student) up to its await: 'View Certificates' of a listed
\* search result, the list being rendered while no student is selected
OnSelectStudentBegin(t, s) ==
    /\ s \in searchResults[t]
    /\ selectedStudent[t] = NoId
    /\ Len(certFetch[t]) < MaxFetches
    /\ selectedStudent' = [selectedStudent EXCEPT ![t] = s]
    /\ isFetchingCertificates' = [isFetchingCertificates EXCEPT ![t] = TRUE]
    /\ certFetch' = [certFetch EXCEPT ![t] = Append(@, s)]
    /\ UNCHANGED <<storeVars, user, studentCertificates, isRequesting, sendReq, toast,
                   crVars, stuVars, remoteVars, authVars, schVars, sortVars,
                   searchResults, isSearching, searchCall>>

\* the i-th onSelectStudent call in flight resumes after getDocs: the reads
\* of one tab are independent requests and come back in any order
OnSelectStudentResolve(t, i, ok) ==
    /\ i \in DOMAIN certFetch[t]
    /\ certFetch' = [certFetch EXCEPT ![t] =
                       [k \in 1..(Len(@) - 1) |-> IF k < i THEN @[k] ELSE @[k + 1]]]
    /\ isFetchingCertificates' = [isFetchingCertificates EXCEPT ![t] = FALSE]
    /\ IF ok
       THEN /\ studentCertificates' =
                  [studentCertificates EXCEPT ![t] = CertificatesOf(certFetch[t][i])]
            /\ toast' = toast
       ELSE /\ studentCertificates' = studentCertificates
            /\ toast' = [toast EXCEPT ![t] = "loadFailed"]
    /\ UNCHANGED <<storeVars, user, selectedStudent, isRequesting, sendReq, crVars,
                   stuVars, remoteVars, authVars, schVars, sortVars, searchResults,
                   isSearching, searchCall>>

\* ------------------------------------------------------- CompanyRequests
\* fetchRequests on mount, first await: the requests of this company
CrFetchRequests(ok) ==
    /\ crPc \in {"idle", "done"}
    /\ IF ok
       THEN /\ crRequests' = [g \in CompanyRequestsQuery(crUser) |-> grants[g].status]
            /\ crCertificates' = [s \in {} |-> {}]
            /\ crPc' = "certs"
       ELSE /\ crRequests' = EmptyView
            /\ crCertificates' = [s \in {} |-> {}]
            /\ crPc' = "done"
    /\ UNCHANGED <<storeVars, dashVars, newVars, crUser, stuVars>>

\* variant of ApprovedStudents: every request that is neither pending nor
\* denied counts, as in the branch of the render that lists certificates
ApprovedStudentsNotDenied(view) ==
    {grants[g].studentId : g \in {h \in DOMAIN view : view[h] \notin {"pending", "denied"}}}

\* students of the requests whose status in the snapshot is 'approved'
\* (studentId of a stored request never changes, so it is read off the store)
ApprovedStudents(view) ==
    {grants[g].studentId : g \in {h \in DOMAIN view : view[h] = "approved"}}

\* fetchRequests, the loop over sortedRequests and setCertificates
CrFetchCertificates(ok) ==
    /\ crPc = "certs"
    /\ crPc' = "done"
    /\ IF ok
       THEN crCertificates' = [s \in ApprovedStudents(crRequests) |-> CertificatesOf(s)]
       ELSE crCertificates' = crCertificates
    /\ UNCHANGED <<storeVars, dashVars, newVars, crUser, crRequests, stuVars>>

\* ------------------------------------------------- StudentRequests (user u)
\* fetchRequests on (re)load of the page
FetchRequests(u, ok) ==
    /\ calls[u] = << >>
    /\ isLoading' = [isLoading EXCEPT ![u] = FALSE]
    /\ LET sid == StudentDocOf(UserEmail[u])
       IN IF ok /\ sid # NoId
          THEN requests' = [requests EXCEPT ![u] =
                              [g \in StudentRequestsQuery(sid) |-> grants[g].status]]
          ELSE requests' = [requests EXCEPT ![u] = EmptyView]
    /\ UNCHANGED <<storeVars, dashVars, crVars, newVars, calls>>

\* handleRequestResponse(requestId, status) up to its await: the Approve and
\* Deny buttons are rendered for the requests shown as pending
HandleRequestResponse(u, g, status) ==
    /\ ~isLoading[u]
    /\ g \in DOMAIN requests[u]
    /\ requests[u][g] = "pending"
    /\ status \in {"approved", "denied"}
    /\ Len(calls[u]) < MaxInflight
    /\ calls' = [calls EXCEPT ![u] =
                   Append(@, [id |-> g, status |-> status, closure |-> requests[u]])]
    /\ UNCHANGED <<storeVars, dashVars, crVars, newVars, requests, isLoading>>

\* handleRevokeAccess(requestId) up to its await: the Revoke button is
\* rendered for the requests shown as approved
HandleRevokeAccess(u, g) ==
    /\ ~isLoading[u]
    /\ g \in DOMAIN requests[u]
    /\ requests[u][g] = "approved"
    /\ Len(calls[u]) < MaxInflight
    /\ calls' = [calls EXCEPT ![u] =
                   Append(@, [id |-> g, status |-> "revoked", closure |-> requests[u]])]
    /\ UNCHANGED <<storeVars, dashVars, crVars, newVars, requests, isLoading>>

\* updateDoc(doc 'accessRequests'/id, {status, responseDate})
ResponseUpdate(g, id, status) ==
    IF g = id
    THEN [grants[g] EXCEPT !.status = status, !.responseDate = Timestamp]
    ELSE grants[g]

\* variant of RevokeUpdate: the write reaches every request of the student
RevokeUpdateAllOfStudent(g, id) ==
    IF grants[g].studentId = grants[id].studentId
    THEN [grants[g] EXCEPT !.status = "revoked", !.revokedDate = Timestamp]
    ELSE grants[g]

\* updateDoc(doc 'accessRequests'/id, {status: 'revoked', revokedDate})
RevokeUpdate(g, id) ==
    IF g = id
    THEN [grants[g] EXCEPT !.status = "revoked", !.revokedDate = Timestamp]
    ELSE grants[g]

\* setRequests(requests.map(...)) with the requests of the handler's closure
MapRequests(closure, id, status) ==
    [g \in DOMAIN closure |-> IF g = id THEN status ELSE closure[g]]

\* handleRequestResponse resumes: a session's writes resolve in issue order
HandleRequestResponseResolve(u, ok) ==
    /\ calls[u] # << >>
    /\ Head(calls[u]).status \in {"approved", "denied"}
    /\ calls' = [calls EXCEPT ![u] = Tail(@)]
    /\ LET c == Head(calls[u])
       IN IF ok
          THEN /\ grants' = [g \in GrantIds |-> ResponseUpdate(g, c.id, c.status)]
               /\ requests' = [requests EXCEPT ![u] = MapRequests(c.closure, c.id, c.status)]
          ELSE UNCHANGED <<grants, requests>>
    /\ UNCHANGED <<students, certificates, dashVars, crVars, newVars, isLoading>>

\* handleRevokeAccess resumes
HandleRevokeAccessResolve(u, ok) ==
    /\ calls[u] # << >>
    /\ Head(calls[u]).status = "revoked"
    /\ calls' = [calls EXCEPT ![u] = Tail(@)]
    /\ LET c == Head(calls[u])
       IN IF ok
          THEN /\ grants' = [g \in GrantIds |-> RevokeUpdate(g, c.id)]
               /\ requests' = [requests EXCEPT ![u] = MapRequests(c.closure, c.id, "revoked")]
          ELSE UNCHANGED <<grants, requests>>
    /\ UNCHANGED <<students, certificates, dashVars, crVars, newVars, isLoading>>

\* ----------------------------------------------------------- AuthProvider
\* role a dashboard page requires in its guard effect; NoRole for the entry
\* screen, which has no guard
PageRole(path) ==
    CASE path \in {"/dashboard/school", "/dashboard/school/enroll",
                   "/dashboard/school/upload"} -> "school"
      [] path \in {"/dashboard/student", "/dashboard/student/requests"} -> "student"
      [] path \in {"/dashboard/company", "/dashboard/company/requests"} -> "company"
      [] OTHER -> NoRole

\* variant of Dashboard: the path of the school dashboard for every role
DashboardOfSchool(role) == "/dashboard/school"

\* `/dashboard/${role}`
Dashboard(role) == "/dashboard/" \o role

Paths == {"/", "/dashboard/school/enroll", "/dashboard/school/upload"}
            \cup {Dashboard(r) : r \in Roles}

\* guard effect of the dashboard pages:
\* if (!loading && (!user || userRole !== R)) router.push('/')
Guarded(path, u, r, l) ==
    IF path \notin {"/", Closed} /\ ~l /\ (u = NoUser \/ r # PageRole(path))
    THEN "/"
    ELSE path

\* the page at the tab's location is mounted by this step
Mounted(t) == location'[t] # location[t]

\* the dependencies [user, userRole, loading] of the page effect change
DepsChanged(t) ==
    \/ ctxUser'[t] # ctxUser[t]
    \/ userRole'[t] # userRole[t]
    \/ loading'[t] # loading[t]

\* UploadCertificate across a change of the auth context or of the location:
\* a mounted page starts with fresh state; the effect calls fetchStudents when
\* user && userRole === 'school'.  Calls of an unmounted page no longer reach
\* its state; a submission in flight still runs to its end.  At most
\* MaxPending fetchStudents calls are in flight.  The effect of
\* StudentRequests calls fetchRequests when user && userRole === 'student'.
PageEffects ==
    /\ upStudents' = [t \in Tabs |-> IF Mounted(t) THEN {} ELSE upStudents[t]]
    /\ upLoading' = [t \in Tabs |-> IF Mounted(t) THEN TRUE ELSE upLoading[t]]
    /\ isUploading' = [t \in Tabs |-> IF Mounted(t) THEN FALSE ELSE isUploading[t]]
    /\ stuFetch' =
         [t \in Tabs |->
            LET kept == IF Mounted(t) THEN << >> ELSE stuFetch[t]
            IN IF /\ location'[t] = "/dashboard/school/upload"
                  /\ Mounted(t) \/ DepsChanged(t)
                  /\ ctxUser'[t] # NoUser
                  /\ userRole'[t] = "school"
               THEN Append(kept, ctxUser'[t])
               ELSE kept]
    /\ reqFetch' =
         [t \in Tabs |->
            LET kept == IF Mounted(t) THEN << >> ELSE reqFetch[t]
            IN IF /\ location'[t] = "/dashboard/student/requests"
                  /\ Mounted(t) \/ DepsChanged(t)
                  /\ ctxUser'[t] # NoUser
                  /\ userRole'[t] = "student"
               THEN Append(kept, ctxUser'[t])
               ELSE kept]
    /\ \A t \in Tabs : Len(stuFetch'[t]) <= MaxPending /\ Len(reqFetch'[t]) <= MaxPending
    /\ UNCHANGED <<uuids, upload, enrollCall>>

\* onAuthStateChanged callback up to its await, in every tab of the browser:
\* setUser(user); a signed-out state also clears the role and the spinner
ListenerStart(p) ==
    /\ ctxUser' = [t \in Tabs |-> IF location[t] = Closed THEN ctxUser[t] ELSE p]
    /\ roleFetch' = [t \in Tabs |->
                       IF p = NoUser \/ location[t] = Closed
                       THEN roleFetch[t]
                       ELSE Append(roleFetch[t], p)]

\* room for one more listener callback in every open tab
CanListen == \A t \in Tabs : location[t] # Closed => Len(roleFetch[t]) < MaxPending

\* the catch of Home.onSubmit: setError(error.message)
AuthFailed(t) ==
    /\ authError' = [authError EXCEPT ![t] = "error"]
    /\ authCall' = [authCall EXCEPT ![t] = NoAuthCall]
    /\ UNCHANGED <<storeVars, dashVars, crVars, stuVars, pageVars, remoteVars, ctxUser,
                   userRole, loading, location, roleFetch, schVars>>

\* Home.onSubmit (register or login) up to the first await
Submit(t, op, e, role) ==
    /\ location[t] = "/"
    /\ ~loading[t]
    /\ authCall[t].pc = "idle"
    /\ authError' = [authError EXCEPT ![t] = ""]
    /\ authCall' = [authCall EXCEPT ![t] =
                      [pc |-> IF op = "signUp" THEN "create" ELSE "signIn",
                       op |-> op, email |-> e, role |-> role]]
    /\ UNCHANGED <<storeVars, dashVars, crVars, stuVars, pageVars, remoteVars, ctxUser,
                   userRole, loading, location, roleFetch, schVars>>

\* signUp resumes after createUserWithEmailAndPassword: the service refuses
\* an email that has an account
SignUpCreate(t, ok) ==
    /\ authCall[t].pc = "create"
    /\ IF ok /\ authCall[t].email \notin accounts
       THEN LET p == UidOf[authCall[t].email]
            IN /\ CanListen
               /\ accounts' = accounts \cup {authCall[t].email}
               /\ authUser' = p
               /\ ListenerStart(p)
               /\ authCall' = [authCall EXCEPT ![t].pc = "setDoc"]
               /\ UNCHANGED <<userRole, loading, location>>
               /\ PageEffects
               /\ UNCHANGED <<storeVars, dashVars, crVars, stuVars, pageVars, users, files,
                              authError>>
       ELSE AuthFailed(t)

\* the document written by setDoc(doc 'users'/uid)
UserDocument(e, role) == [email |-> e, role |-> role]

\* variant of AddDoc: the document is written under the id of the last one
AddDocOverLast(coll, d) ==
    IF coll = << >> THEN <<d>> ELSE [coll EXCEPT ![Len(coll)] = d]

\* addDoc: creates a document under a new id
AddDoc(coll, d) == Append(coll, d)

\* setDoc: creates or overwrites the document of that id
SetDoc(coll, id, d) == [k \in DOMAIN coll \cup {id} |-> IF k = id THEN d ELSE coll[k]]

\* signUp resumes after setDoc: setUserRole(role), router.push
SignUpSetDoc(t, ok) ==
    /\ authCall[t].pc = "setDoc"
    /\ IF ok
       THEN /\ users' = SetDoc(users, UidOf[authCall[t].email],
                               UserDocument(authCall[t].email, authCall[t].role))
            /\ userRole' = [userRole EXCEPT ![t] = authCall[t].role]
            /\ location' = [location EXCEPT ![t] =
                              Guarded(Dashboard(authCall[t].role), ctxUser[t],
                                      authCall[t].role, loading[t])]
            /\ authCall' = [authCall EXCEPT ![t] = NoAuthCall]
            /\ UNCHANGED <<ctxUser, loading, roleFetch>>
            /\ PageEffects
            /\ UNCHANGED <<storeVars, dashVars, crVars, stuVars, pageVars, accounts, files,
                           authUser, authError>>
       ELSE AuthFailed(t)

\* signIn resumes after signInWithEmailAndPassword
SignInAuth(t, ok) ==
    /\ authCall[t].pc = "signIn"
    /\ IF ok /\ authCall[t].email \in accounts
       THEN LET p == UidOf[authCall[t].email]
            IN /\ CanListen
               /\ authUser' = p
               /\ ListenerStart(p)
               /\ authCall' = [authCall EXCEPT ![t].pc = "getDoc"]
               /\ UNCHANGED <<userRole, loading, location>>
               /\ PageEffects
               /\ UNCHANGED <<storeVars, dashVars, crVars, stuVars, pageVars, accounts, users,
                              files, authError>>
       ELSE AuthFailed(t)

\* variant of SignInGetDoc: a successful sign-in writes the principal's
\* document again, with the role 'student'
SignInGetDocUpsert(t, ok) ==
    /\ authCall[t].pc = "getDoc"
    /\ IF ok
       THEN LET p == UidOf[authCall[t].email]
            IN /\ users' = SetDoc(users, p, UserDocument(authCall[t].email, "student"))
               /\ userRole' = [userRole EXCEPT ![t] = "student"]
               /\ location' = [location EXCEPT ![t] =
                                 Guarded(Dashboard("student"), ctxUser[t], "student",
                                         loading[t])]
               /\ authCall' = [authCall EXCEPT ![t] = NoAuthCall]
               /\ UNCHANGED <<ctxUser, loading, roleFetch>>
               /\ PageEffects
               /\ UNCHANGED <<storeVars, dashVars, crVars, stuVars, pageVars, accounts, files,
                              authUser, authError>>
       ELSE AuthFailed(t)

\* signIn resumes after getDoc(doc 'users'/uid): with a document it sets the
\* role and navigates, without one it returns null
SignInGetDoc(t, ok) ==
    /\ authCall[t].pc = "getDoc"
    /\ IF ok
       THEN LET p == UidOf[authCall[t].email]
                role == IF p \in DOMAIN users THEN users[p].role ELSE NoRole
            IN /\ userRole' = [userRole EXCEPT ![t] =
                                 IF p \in DOMAIN users THEN role ELSE @]
               /\ location' = [location EXCEPT ![t] =
                                 IF p \in DOMAIN users
                                 THEN Guarded(Dashboard(role), ctxUser[t], role, loading[t])
                                 ELSE @]
               /\ authCall' = [authCall EXCEPT ![t] = NoAuthCall]
               /\ UNCHANGED <<ctxUser, loading, roleFetch>>
               /\ PageEffects
               /\ UNCHANGED <<storeVars, dashVars, crVars, stuVars, pageVars, remoteVars,
                              authError>>
       ELSE AuthFailed(t)

\* logout from the Navbar, which renders only with a user: signOut, then
\* setUserRole(null) and router.push('/'); a failure is rethrown to the click
Logout(t, ok) ==
    /\ ctxUser[t] # NoUser
    /\ location[t] # "/"
    /\ IF ok
       THEN /\ authUser' = NoUser
            /\ ListenerStart(NoUser)
            /\ userRole' = [o \in Tabs |-> IF location[o] = Closed THEN userRole[o] ELSE NoRole]
            /\ loading' = [o \in Tabs |-> IF location[o] = Closed THEN loading[o] ELSE FALSE]
            /\ location' = [o \in Tabs |->
                              IF o = t THEN "/"
                              ELSE Guarded(location[o], NoUser, NoRole, FALSE)]
            /\ PageEffects
            /\ UNCHANGED <<storeVars, dashVars, crVars, stuVars, pageVars, accounts, users,
                           files, authCall, authError>>
       ELSE UNCHANGED vars

\* the listener callback of principal p resumes after getDoc(doc 'users'/p):
\* with a document it sets the role and, on the entry screen, navigates to
\* the role's dashboard; then setLoading(false).  A failed read throws out of
\* the callback, which has no catch.
ListenerResolve(t, i, ok) ==
    /\ i \in DOMAIN roleFetch[t]
    /\ roleFetch' = [roleFetch EXCEPT ![t] =
                       [k \in 1..(Len(@) - 1) |-> IF k < i THEN @[k] ELSE @[k + 1]]]
    /\ LET p == roleFetch[t][i]
           found == p \in DOMAIN users
           role == IF found THEN users[p].role ELSE userRole[t]
       IN IF ok
          THEN /\ userRole' = [userRole EXCEPT ![t] = role]
               /\ loading' = [loading EXCEPT ![t] = FALSE]
               /\ location' = [location EXCEPT ![t] =
                                 Guarded(IF found /\ @ = "/" THEN Dashboard(role) ELSE @,
                                         ctxUser[t], role, FALSE)]
          ELSE UNCHANGED <<userRole, loading, location>>
    /\ UNCHANGED ctxUser
    /\ PageEffects
    /\ UNCHANGED <<storeVars, dashVars, crVars, stuVars, pageVars, remoteVars, authCall, authError>>

\* the tab loads the page at a path: a new AuthProvider, whose listener is
\* called with the browser's principal
OpenPage(t, path) ==
    /\ path \in Paths
    /\ ctxUser' = [ctxUser EXCEPT ![t] = authUser]
    /\ userRole' = [userRole EXCEPT ![t] = NoRole]
    /\ loading' = [loading EXCEPT ![t] = authUser # NoUser]
    /\ roleFetch' = [roleFetch EXCEPT ![t] =
                       IF authUser = NoUser THEN << >> ELSE <<authUser>>]
    /\ location' = [location EXCEPT ![t] =
                      Guarded(path, authUser, NoRole, authUser # NoUser)]
    /\ authCall' = [authCall EXCEPT ![t] = NoAuthCall]
    /\ authError' = [authError EXCEPT ![t] = ""]
    /\ upStudents' = [upStudents EXCEPT ![t] = {}]
    /\ upLoading' = [upLoading EXCEPT ![t] = TRUE]
    /\ isUploading' = [isUploading EXCEPT ![t] = FALSE]
    /\ stuFetch' = [stuFetch EXCEPT ![t] = << >>]
    /\ reqFetch' = [reqFetch EXCEPT ![t] = << >>]
    /\ upload' = [upload EXCEPT ![t] = NoUpload]
    /\ enrollCall' = [enrollCall EXCEPT ![t] = << >>]
    /\ UNCHANGED <<storeVars, dashVars, crVars, stuVars, pageVars, remoteVars, uuids>>

\* a Navbar link or page button of the signed-in role: client-side navigation
Navigate(t, path) ==
    /\ path \in Paths \ {"/"}
    /\ ctxUser[t] # NoUser
    /\ location[t] \notin {"/", Closed, path}
    /\ PageRole(path) = userRole[t]
    /\ location' = [location EXCEPT ![t] =
                      Guarded(path, ctxUser[t], userRole[t], loading[t])]
    /\ UNCHANGED <<ctxUser, userRole, loading, roleFetch, authCall, authError>>
    /\ PageEffects
    /\ UNCHANGED <<storeVars, dashVars, crVars, stuVars, pageVars, remoteVars>>

\* ---------------------------------------------------------- EnrollStudent
\* the document written by addDoc(collection 'students')
NewStudent(e, schoolId) == [email |-> e, schoolId |-> schoolId]

\* onSubmit up to its await: the form is rendered once loading is false, the
\* handler returns without a user; the form is submitted again only after
\* the call before has come back
EnrollSubmit(t, e) ==
    /\ location[t] = "/dashboard/school/enroll"
    /\ ~loading[t]
    /\ ctxUser[t] # NoUser
    /\ enrollCall[t] = << >>
    /\ enrollCall' = [enrollCall EXCEPT ![t] = Append(@, NewStudent(e, ctxUser[t]))]
    /\ UNCHANGED <<storeVars, dashVars, crVars, stuVars, pageVars, remoteVars, authVars, uuids,
                   upStudents, upLoading, isUploading, stuFetch, reqFetch, upload>>

\* onSubmit resumes after addDoc
EnrollAddDoc(t, ok) ==
    /\ enrollCall[t] # << >>
    /\ ok => Len(students) < MaxStudents
    /\ enrollCall' = [enrollCall EXCEPT ![t] = Tail(@)]
    /\ IF ok
       THEN students' = AddDoc(students, Head(enrollCall[t]))
       ELSE students' = students
    /\ UNCHANGED <<certificates, grants, dashVars, crVars, stuVars, pageVars, remoteVars,
                   authVars, uuids, upStudents, upLoading, isUploading, stuFetch, reqFetch, upload>>

\* ------------------------------------------------------ UploadCertificate
\* contents of the files a school may select (bytes)
Files == {<<5>>, <<80, 68>>}

RECURSIVE SumBytes(_)
SumBytes(b) == IF b = << >> THEN 0 ELSE Head(b) + SumBytes(Tail(b))

RECURSIVE WeightedBytes(_)
WeightedBytes(b) == IF b = << >> THEN 0 ELSE Len(b) * Head(b) + WeightedBytes(Tail(b))

\* crypto.subtle.digest('SHA-256', buffer): the platform's digest, stood in
\* for by a two-byte digest of the same bytes
Digest(b) == <<(SumBytes(b) + Len(b)) % 256, WeightedBytes(b) % 256>>

HexDigits == <<"0", "1", "2", "3", "4", "5", "6", "7",
               "8", "9", "a", "b", "c", "d", "e", "f">>

\* b.toString(16) of a byte
ToString16(b) ==
    IF b < 16 THEN HexDigits[b + 1]
    ELSE HexDigits[(b \div 16) + 1] \o HexDigits[(b % 16) + 1]

\* s.padStart(2, '0') of a string of one or two characters
PadStart2(b) == IF b < 16 THEN "0" \o ToString16(b) ELSE ToString16(b)

RECURSIVE JoinHex(_)
JoinHex(d) == IF d = << >> THEN "" ELSE PadStart2(Head(d)) \o JoinHex(Tail(d))

\* generateFileHash(file)
GenerateFileHash(b) == JoinHex(Digest(b))

\* variant of FileName: the name carries no uuid
FileNameNoUuid(uid, s, n) == <<"certificates", uid, s, 0>>

\* `certificates/${user.uid}/${values.studentId}/${uuidv4()}.${ext}`
FileName(uid, s, n) == <<"certificates", uid, s, n>>

\* getDownloadURL(ref(storage, fileName))
DownloadURL(path) == <<"url", path>>

\* the object a download URL points at
PathOf(url) == url[2]

\* query(students, schoolId == uid)
SchoolStudentsQuery(uid) == {s \in StudentIds : students[s].schoolId = uid}

\* fetchStudents resumes after getDocs
FetchStudentsResolve(t, ok) ==
    /\ stuFetch[t] # << >>
    /\ stuFetch' = [stuFetch EXCEPT ![t] = Tail(@)]
    /\ upLoading' = [upLoading EXCEPT ![t] = FALSE]
    /\ IF ok
       THEN upStudents' = [upStudents EXCEPT ![t] = SchoolStudentsQuery(Head(stuFetch[t]))]
       ELSE upStudents' = upStudents
    /\ UNCHANGED <<storeVars, dashVars, crVars, stuVars, pageVars, remoteVars, authVars, uuids,
                   isUploading, upload, enrollCall, reqFetch>>

\* onSubmit up to uploadBytes: the form is rendered with a non-empty student
\* list, the select offers the listed students, the button is disabled while
\* uploading; the hash is computed from the selected file
UploadSubmit(t, s, b) ==
    /\ location[t] = "/dashboard/school/upload"
    /\ ~loading[t] /\ ~upLoading[t]
    /\ ctxUser[t] # NoUser
    /\ s \in upStudents[t]
    /\ b \in Files
    /\ ~isUploading[t]
    /\ upload[t].pc = "idle"
    /\ uuids < MaxCerts
    /\ uuids' = uuids + 1
    /\ isUploading' = [isUploading EXCEPT ![t] = TRUE]
    /\ upload' = [upload EXCEPT ![t] =
                    [pc |-> "uploadBytes", uid |-> ctxUser[t], student |-> s,
                     students |-> upStudents[t], file |-> b,
                     fileName |-> FileName(ctxUser[t], s, uuids + 1),
                     fileHash |-> GenerateFileHash(b)]]
    /\ UNCHANGED <<storeVars, dashVars, crVars, stuVars, pageVars, remoteVars, authVars,
                   upStudents, upLoading, stuFetch, reqFetch, enrollCall>>

\* variant of UploadFailed: the finally block is missing
UploadFailedNoFinally(t) ==
    /\ upload' = [upload EXCEPT ![t] = NoUpload]
    /\ UNCHANGED isUploading

\* the catch and finally blocks of onSubmit
UploadFailed(t) ==
    /\ isUploading' = [isUploading EXCEPT ![t] = FALSE]
    /\ upload' = [upload EXCEPT ![t] = NoUpload]

\* variant of StoredBytes: only the first byte of the file is passed on
StoredBytesTruncated(b) == <<Head(b)>>

\* the bytes passed to uploadBytes(storageRef, file): the selected file
StoredBytes(b) == b

\* onSubmit resumes after uploadBytes
UploadBytes(t, ok) ==
    /\ upload[t].pc = "uploadBytes"
    /\ IF ok
       THEN /\ files' = SetDoc(files, upload[t].fileName, StoredBytes(upload[t].file))
            /\ upload' = [upload EXCEPT ![t].pc = "getDownloadURL"]
            /\ UNCHANGED isUploading
       ELSE /\ UploadFailed(t)
            /\ files' = files
    /\ UNCHANGED <<storeVars, dashVars, crVars, stuVars, pageVars, accounts, users, authUser,
                   authVars, uuids, upStudents, upLoading, stuFetch, reqFetch, enrollCall>>

\* onSubmit resumes after getDownloadURL; students.find over the list of
\* the handler's closure throws 'Student not found' without a match
GetDownloadURL(t, ok) ==
    /\ upload[t].pc = "getDownloadURL"
    /\ IF ok /\ upload[t].student \in upload[t].students
       THEN /\ upload' = [upload EXCEPT ![t].pc = "addDoc"]
            /\ UNCHANGED isUploading
       ELSE UploadFailed(t)
    /\ UNCHANGED <<storeVars, dashVars, crVars, stuVars, pageVars, remoteVars, authVars, uuids,
                   upStudents, upLoading, stuFetch, reqFetch, enrollCall>>

\* the document written by addDoc(collection 'certificates')
NewCertificate(c) ==
    [studentId |-> c.student, fileHash |-> c.fileHash, schoolId |-> c.uid,
     fileURL |-> DownloadURL(c.fileName)]

\* onSubmit resumes after addDoc
AddCertificate(t, ok) ==
    /\ upload[t].pc = "addDoc"
    /\ ok => Len(certificates) < MaxCerts
    /\ IF ok
       THEN /\ certificates' = AddDoc(certificates, NewCertificate(upload[t]))
            /\ isUploading' = [isUploading EXCEPT ![t] = FALSE]
            /\ upload' = [upload EXCEPT ![t] = NoUpload]
       ELSE /\ UploadFailed(t)
            /\ certificates' = certificates
    /\ UNCHANGED <<students, grants, dashVars, crVars, stuVars, pageVars, remoteVars, authVars,
                   uuids, upStudents, upLoading, stuFetch, reqFetch, enrollCall>>

\* ------------------------------------------------------------------- Next
DashNext(t) ==
    \/ \E s \in StudentIds, ok \in BOOLEAN : OnSelectStudent(t, s, ok)
    \/ BackToSearch(t)
    \/ OnSendRequest(t)
    \/ \E ok \in BOOLEAN : OnSendRequestCheck(t, ok)
    \/ \E ok \in BOOLEAN : OnSendRequestInsert(t, ok)

CrNext ==
    \/ \E ok \in BOOLEAN : CrFetchRequests(ok)
    \/ \E ok \in BOOLEAN : CrFetchCertificates(ok)

StuNext ==
    \/ \E u \in StudentUsers, ok \in BOOLEAN : FetchRequests(u, ok)
    \/ \E u \in StudentUsers, g \in GrantIds, st \in {"approved", "denied"} :
          HandleRequestResponse(u, g, st)
    \/ \E u \in StudentUsers, g \in GrantIds : HandleRevokeAccess(u, g)
    \/ \E u \in StudentUsers, ok \in BOOLEAN : HandleRequestResponseResolve(u, ok)
    \/ \E u \in StudentUsers, ok \in BOOLEAN : HandleRevokeAccessResolve(u, ok)

\* the student starts a handler only when none is awaiting its updateDoc
StuSeqNext ==
    \/ \E u \in StudentUsers, ok \in BOOLEAN : FetchRequests(u, ok)
    \/ \E u \in StudentUsers, g \in GrantIds, st \in {"approved", "denied"} :
          calls[u] = << >> /\ HandleRequestResponse(u, g, st)
    \/ \E u \in StudentUsers, g \in GrantIds :
          calls[u] = << >> /\ HandleRevokeAccess(u, g)
    \/ \E u \in StudentUsers, ok \in BOOLEAN : HandleRequestResponseResolve(u, ok)
    \/ \E u \in StudentUsers, ok \in BOOLEAN : HandleRevokeAccessResolve(u, ok)

\* one company dashboard, the company requests page and the student
Next == DashNext("t1") \/ CrNext \/ StuSeqNext
Spec == Init /\ [][Next]_vars

\* two company dashboards submitting concurrently
NextRace == DashNext("t1") \/ DashNext("t2")
SpecRace == InitRace /\ [][NextRace]_vars

\* the student requests page with any number of handlers in flight
NextStudent == StuNext
SpecStudent == InitStudent /\ [][NextStudent]_vars

\* ------------------------------------------------- entry screen and school
AuthNext(t) ==
    \/ \E e \in Emails, r \in Roles : Submit(t, "signUp", e, r)
    \/ \E e \in Emails : Submit(t, "signIn", e, NoRole)
    \/ \E ok \in BOOLEAN : SignUpCreate(t, ok)
    \/ \E ok \in BOOLEAN : SignUpSetDoc(t, ok)
    \/ \E ok \in BOOLEAN : SignInAuth(t, ok)
    \/ \E ok \in BOOLEAN : SignInGetDoc(t, ok)
    \/ \E ok \in BOOLEAN : Logout(t, ok)
    \/ \E i \in 1..MaxPending, ok \in BOOLEAN : ListenerResolve(t, i, ok)
    \/ \E path \in Paths : OpenPage(t, path)
    \/ \E path \in Paths : Navigate(t, path)

SchoolNext(t) ==
    \/ \E e \in Emails : EnrollSubmit(t, e)
    \/ \E ok \in BOOLEAN : EnrollAddDoc(t, ok)
    \/ \E ok \in BOOLEAN : FetchStudentsResolve(t, ok)
    \/ \E s \in StudentIds, b \in Files : UploadSubmit(t, s, b)
    \/ \E ok \in BOOLEAN : UploadBytes(t, ok)
    \/ \E ok \in BOOLEAN : GetDownloadURL(t, ok)
    \/ \E ok \in BOOLEAN : AddCertificate(t, ok)

\* nothing registered, nothing stored, one tab on the entry screen
InitAuth ==
    /\ students = << >>
    /\ certificates = << >>
    /\ grants = << >>
    /\ InitPages
    /\ user = [t \in Tabs |-> "c1"]
    /\ accounts = {}
    /\ users = [u \in {} |-> [email |-> "none", role |-> NoRole]]
    /\ files = [f \in {} |-> << >>]
    /\ authUser = NoUser
    /\ InitTabs
    /\ ctxUser = [t \in Tabs |-> NoUser]
    /\ userRole = [t \in Tabs |-> NoRole]
    /\ location = ("t1" :> "/") @@ ("t2" :> Closed)

\* sign-up, sign-in, logout and the auth listener in one tab
NextAuth == AuthNext("t1")
SpecAuth == InitAuth /\ [][NextAuth]_vars

\* two accounts are registered, the first a school, which is signed in and
\* has the enroll page open
InitSchool ==
    /\ students = << >>
    /\ certificates = << >>
    /\ grants = << >>
    /\ InitPages
    /\ user = [t \in Tabs |-> "c1"]
    /\ accounts = Emails
    /\ \E r \in {"school", "company"} :
         users = ("p1" :> UserDocument("e1", "school")) @@ ("p2" :> UserDocument("e2", r))
    /\ files = [f \in {} |-> << >>]
    /\ authUser = "p1"
    /\ InitTabs
    /\ ctxUser = ("t1" :> "p1") @@ ("t2" :> NoUser)
    /\ userRole = ("t1" :> "school") @@ ("t2" :> NoRole)
    /\ location = ("t1" :> "/dashboard/school/enroll") @@ ("t2" :> Closed)

\* the enroll page and the upload page in one tab
NextSchool ==
    \/ SchoolNext("t1")
    \/ \E path \in {"/dashboard/school/enroll", "/dashboard/school/upload"} :
          Navigate("t1", path)
SpecSchool == InitSchool /\ [][NextSchool]_vars

\* the school has enrolled a student and has the enroll page or the upload
\* page, just mounted, open in one tab and, after a step back in the history
\* of its other tab, the entry screen in that one
InitSwitch ==
    /\ students = <<NewStudent("e1", "p1")>>
    /\ certificates = << >>
    /\ grants = << >>
    /\ InitPages
    /\ user = [t \in Tabs |-> "c1"]
    /\ accounts = Emails
    /\ \E r \in {"school", "company"} :
         users = ("p1" :> UserDocument("e1", "school")) @@ ("p2" :> UserDocument("e2", r))
    /\ files = [f \in {} |-> << >>]
    /\ authUser = "p1"
    /\ ctxUser = [t \in Tabs |-> "p1"]
    /\ userRole = [t \in Tabs |-> "school"]
    /\ loading = [t \in Tabs |-> FALSE]
    /\ roleFetch = [t \in Tabs |-> << >>]
    /\ authCall = [t \in Tabs |-> NoAuthCall]
    /\ authError = [t \in Tabs |-> ""]
    /\ uuids = 0
    /\ upStudents = [t \in Tabs |-> {}]
    /\ upLoading = [t \in Tabs |-> TRUE]
    /\ isUploading = [t \in Tabs |-> FALSE]
    /\ upload = [t \in Tabs |-> NoUpload]
    /\ enrollCall = [t \in Tabs |-> << >>]
    /\ reqFetch = [t \in Tabs |-> << >>]
    /\ \/ /\ location = ("t1" :> "/dashboard/school/enroll") @@ ("t2" :> "/")
          /\ stuFetch = [t \in Tabs |-> << >>]
       \/ /\ location = ("t1" :> "/dashboard/school/upload") @@ ("t2" :> "/")
          /\ stuFetch = ("t1" :> <<"p1">>) @@ ("t2" :> << >>)

\* a school page in one tab, a sign-in in the other tab of the browser
NextSwitch ==
    \/ SchoolNext("t1")
    \/ \E t \in Tabs, i \in 1..MaxPending, ok \in BOOLEAN : ListenerResolve(t, i, ok)
    \/ \E e \in Emails : Submit("t2", "signIn", e, NoRole)
    \/ \E ok \in BOOLEAN : SignInAuth("t2", ok)
    \/ \E ok \in BOOLEAN : SignInGetDoc("t2", ok)
SpecSwitch == InitSwitch /\ [][NextSwitch]_vars

\* two schools have each enrolled a student under the email of the student
\* principal (the enroll handler looks up no existing record), and each has
\* issued a certificate to its record; company c1 is signed in
InitShared ==
    /\ students = << [email |-> "e1", schoolId |-> "sch1"],
                     [email |-> "e1", schoolId |-> "sch2"] >>
    /\ certificates = << [studentId |-> 1, fileHash |-> "h1", schoolId |-> "sch1"],
                         [studentId |-> 2, fileHash |-> "h2", schoolId |-> "sch2"] >>
    /\ grants = << >>
    /\ InitPages
    /\ InitNoSchool
    /\ user = [t \in Tabs |-> "c1"]

\* the sessions of Spec on a store with two StudentRecords of one email
SpecShared == InitShared /\ [][Next]_vars

\* no company is signed in on a dashboard tab
NoCompany == "none"

\* the tab shows the company dashboard: three students are enrolled, two of
\* them under one email, the third with a student ID that reads like that
\* email; one certificate is issued
InitDashboard ==
    /\ students = << [email |-> "e1", schoolId |-> "sch1", studentId |-> "s1"],
                     [email |-> "e1", schoolId |-> "sch2", studentId |-> "s2"],
                     [email |-> "e2", schoolId |-> "sch1", studentId |-> "e1"] >>
    /\ certificates = << [studentId |-> 1, fileHash |-> "h1", schoolId |-> "sch1"] >>
    /\ InitNoSchool
    /\ user = [t \in Tabs |-> "c1"]

\* the tab shows the upload page of school p1, just mounted, after the school
\* has enrolled two students
InitUpload ==
    /\ students = << NewStudent("e1", "p1"), NewStudent("e2", "p1") >>
    /\ certificates = << >>
    /\ user = [t \in Tabs |-> NoCompany]
    /\ accounts = Emails
    /\ users = ("p1" :> UserDocument("e1", "school")) @@ ("p2" :> UserDocument("e2", "company"))
    /\ files = [f \in {} |-> << >>]
    /\ authUser = "p1"
    /\ ctxUser = ("t1" :> "p1") @@ ("t2" :> NoUser)
    /\ userRole = ("t1" :> "school") @@ ("t2" :> NoRole)
    /\ location = ("t1" :> "/dashboard/school/upload") @@ ("t2" :> Closed)
    /\ loading = [t \in Tabs |-> FALSE]
    /\ roleFetch = [t \in Tabs |-> << >>]
    /\ authCall = [t \in Tabs |-> NoAuthCall]
    /\ authError = [t \in Tabs |-> ""]
    /\ uuids = 0
    /\ upStudents = [t \in Tabs |-> {}]
    /\ upLoading = [t \in Tabs |-> TRUE]
    /\ isUploading = [t \in Tabs |-> FALSE]
    /\ stuFetch = ("t1" :> <<"p1">>) @@ ("t2" :> << >>)
    /\ reqFetch = [t \in Tabs |-> << >>]
    /\ upload = [t \in Tabs |-> NoUpload]
    /\ enrollCall = [t \in Tabs |-> << >>]

\* one tab, which shows the company dashboard or the upload page
InitPage ==
    /\ grants = << >>
    /\ InitPages
    /\ InitDashboard \/ InitUpload

\* the company dashboard with its search form
SearchNext(t) ==
    \/ \E q \in Terms : OnSearch(t, q)
    \/ \E ok \in BOOLEAN : OnSearchEmail(t, ok)
    \/ \E ok \in BOOLEAN : OnSearchId(t, ok)
    \/ \E s \in StudentIds : OnSelectStudentBegin(t, s)
    \/ \E i \in 1..MaxFetches, ok \in BOOLEAN : OnSelectStudentResolve(t, i, ok)
    \/ BackToSearch(t)
    \/ OnSendRequest(t)
    \/ \E ok \in BOOLEAN : OnSendRequestCheck(t, ok)
    \/ \E ok \in BOOLEAN : OnSendRequestInsert(t, ok)

\* the upload page
UploadNext(t) ==
    \/ \E ok \in BOOLEAN : FetchStudentsResolve(t, ok)
    \/ \E s \in StudentIds, b \in Files : UploadSubmit(t, s, b)
    \/ \E ok \in BOOLEAN : UploadBytes(t, ok)
    \/ \E ok \in BOOLEAN : GetDownloadURL(t, ok)
    \/ \E ok \in BOOLEAN : AddCertificate(t, ok)

NextPage == SearchNext("t1") \/ UploadNext("t1")
SpecPage == InitPage /\ [][NextPage]_vars

\* ------------------------------------------------ order of the request lists
\* requestDate values of the documents (later is larger)
Dates == {1, 2}

\* the accessRequests documents that the query of the student page and the
\* query of the company page both return, in the order of the snapshot
SortDocSnapshots ==
    UNION {[1..n -> [status : Statuses, requestDate : Dates]] : n \in 1..MaxSortDocs}

\* requestsSnapshot.docs.map(doc => ({id: doc.id, ...doc.data()}))
RequestsData(docs) ==
    [i \in 1..Len(docs) |->
        [id |-> i, status |-> docs[i].status, requestDate |-> docs[i].requestDate]]

\* statusPriority[status] ?? 3
StatusPriority(status) ==
    CASE status = "pending" -> 0
      [] status = "approved" -> 1
      [] status \in {"denied", "revoked"} -> 2
      [] OTHER -> 3

\* comparator of the student page
StudentCompare(a, b) ==
    IF StatusPriority(a.status) # StatusPriority(b.status)
    THEN StatusPriority(a.status) - StatusPriority(b.status)
    ELSE b.requestDate - a.requestDate

\* comparator of the company page
CompanyCompare(a, b) ==
    IF a.status = "pending" /\ b.status # "pending" THEN -1
    ELSE IF a.status # "pending" /\ b.status = "pending" THEN 1
    ELSE IF a.status = "approved" /\ b.status # "approved" THEN -1
    ELSE IF a.status # "approved" /\ b.status = "approved" THEN 1
    ELSE b.requestDate - a.requestDate

\* Array.prototype.sort(compare), a stable sort: an element moves behind
\* those that compare lower and behind the earlier ones that compare equal;
\* compare[j, i] is the comparator's value for the j-th and the i-th element
ArraySort(list, compare) ==
    LET n == Len(list)
        before(i) == {j \in 1..n : \/ compare[j, i] < 0
                                   \/ compare[j, i] = 0 /\ j < i}
    IN [k \in 1..n |-> list[CHOOSE i \in 1..n : Cardinality(before(i)) = k - 1]]

\* fetchRequests of the student page: sort and setRequests(sortedRequests)
SortStudentRequests ==
    /\ LET data == RequestsData(sortDocs)
       IN stuView' = ArraySort(data, [j, i \in 1..Len(data) |->
                                        StudentCompare(data[j], data[i])])
    /\ UNCHANGED <<storeVars, dashVars, crVars, stuVars, remoteVars, authVars, schVars,
                   srchVars, sortDocs, crView>>

\* fetchRequests of the company page: sort and setRequests(sortedRequests)
SortCompanyRequests ==
    /\ LET data == RequestsData(sortDocs)
       IN crView' = ArraySort(data, [j, i \in 1..Len(data) |->
                                       CompanyCompare(data[j], data[i])])
    /\ UNCHANGED <<storeVars, dashVars, crVars, stuVars, remoteVars, authVars, schVars,
                   srchVars, sortDocs, stuView>>

\* handleRequestResponse on the i-th row of the student page: updateDoc,
\* then setRequests(requests.map(...)), which keeps every row in its place
MapRequestResponse(i, status) ==
    /\ i \in 1..Len(stuView)
    /\ stuView[i].status = "pending"
    /\ status \in {"approved", "denied"}
    /\ sortDocs' = [sortDocs EXCEPT ![stuView[i].id].status = status]
    /\ stuView' = [stuView EXCEPT ![i].status = status]
    /\ UNCHANGED <<storeVars, dashVars, crVars, stuVars, remoteVars, authVars, schVars,
                   srchVars, crView>>

\* handleRevokeAccess on the i-th row of the student page
MapRevokeAccess(i) ==
    /\ i \in 1..Len(stuView)
    /\ stuView[i].status = "approved"
    /\ sortDocs' = [sortDocs EXCEPT ![stuView[i].id].status = "revoked"]
    /\ stuView' = [stuView EXCEPT ![i].status = "revoked"]
    /\ UNCHANGED <<storeVars, dashVars, crVars, stuVars, remoteVars, authVars, schVars,
                   srchVars, crView>>

\* any snapshot of at most MaxSortDocs requests, neither page loaded yet
InitSort ==
    /\ InitStore
    /\ grants = << >>
    /\ InitViews
    /\ InitNoSchool
    /\ user = [t \in Tabs |-> "c1"]
    /\ sortDocs \in SortDocSnapshots
    /\ stuView = << >>
    /\ crView = << >>

NextSort ==
    \/ SortStudentRequests
    \/ SortCompanyRequests
    \/ \E i \in 1..MaxSortDocs, status \in {"approved", "denied"} : MapRequestResponse(i, status)
    \/ \E i \in 1..MaxSortDocs : MapRevokeAccess(i)

SpecSort == InitSort /\ [][NextSort]_vars

\* ------------------------- StudentRequests across a change of the principal
\* user.email of principal p
EmailOf(p) == CHOOSE e \in Emails : UidOf[e] = p

\* fetchRequests of the StudentRequests page u in tab t resumes: the student
\* document of user.email (docs[0]) and its requests; setRequests is reached
\* only with a student document and without a failure, setIsLoading(false)
\* on every path
FetchRequestsResolve(t, u, ok) ==
    /\ reqFetch[t] # << >>
    /\ reqFetch' = [reqFetch EXCEPT ![t] = Tail(@)]
    /\ isLoading' = [isLoading EXCEPT ![u] = FALSE]
    /\ LET sid == StudentDocOf(EmailOf(Head(reqFetch[t])))
       IN IF ok /\ sid # NoId
          THEN requests' = [requests EXCEPT ![u] =
                              [g \in StudentRequestsQuery(sid) |-> grants[g].status]]
          ELSE requests' = requests
    /\ UNCHANGED <<storeVars, dashVars, crVars, calls, pageVars, remoteVars, authVars,
                   uuids, upStudents, upLoading, isUploading, stuFetch, upload,
                   enrollCall>>

\* the page renders its list when neither loading nor isLoading is set
StudentPageShown(t, u) ==
    /\ location[t] = "/dashboard/student/requests"
    /\ ~loading[t]
    /\ ~isLoading[u]

\* a click on Approve or Deny of a listed request, one handler at a time
ClickResponse(t, u, g, status) ==
    StudentPageShown(t, u) /\ calls[u] = << >> /\ HandleRequestResponse(u, g, status)

\* a click on Revoke Access of a listed request
ClickRevoke(t, u, g) ==
    StudentPageShown(t, u) /\ calls[u] = << >> /\ HandleRevokeAccess(u, g)

\* each student has one unanswered request; student p1 has the requests page
\* open in tab t1 and its fetchRequests in flight; p2 has an account as a student or as a company; tab t2 shows the
\* entry screen
InitStudentSwitch ==
    /\ InitStore
    /\ grants = <<NewRequest("c1", 1), NewRequest("c2", 2)>>
    /\ InitPages
    /\ user = [t \in Tabs |-> "c1"]
    /\ accounts = Emails
    /\ \E r \in {"student", "company"} :
         users = ("p1" :> UserDocument("e1", "student")) @@ ("p2" :> UserDocument("e2", r))
    /\ files = [f \in {} |-> << >>]
    /\ authUser = "p1"
    /\ ctxUser = [t \in Tabs |-> "p1"]
    /\ userRole = [t \in Tabs |-> "student"]
    /\ loading = [t \in Tabs |-> FALSE]
    /\ roleFetch = [t \in Tabs |-> << >>]
    /\ authCall = [t \in Tabs |-> NoAuthCall]
    /\ authError = [t \in Tabs |-> ""]
    /\ uuids = 0
    /\ upStudents = [t \in Tabs |-> {}]
    /\ upLoading = [t \in Tabs |-> TRUE]
    /\ isUploading = [t \in Tabs |-> FALSE]
    /\ stuFetch = [t \in Tabs |-> << >>]
    /\ upload = [t \in Tabs |-> NoUpload]
    /\ enrollCall = [t \in Tabs |-> << >>]
    /\ location = ("t1" :> "/dashboard/student/requests") @@ ("t2" :> "/")
    /\ reqFetch = ("t1" :> <<"p1">>) @@ ("t2" :> << >>)

\* the student requests page in tab t1, a sign-in in tab t2 of the browser
NextStudentSwitch ==
    \/ \E ok \in BOOLEAN : FetchRequestsResolve("t1", "u1", ok)
    \/ \E g \in GrantIds, st \in {"approved", "denied"} : ClickResponse("t1", "u1", g, st)
    \/ \E g \in GrantIds : ClickRevoke("t1", "u1", g)
    \/ \E ok \in BOOLEAN : HandleRequestResponseResolve("u1", ok)
    \/ \E ok \in BOOLEAN : HandleRevokeAccessResolve("u1", ok)
    \/ \E t \in Tabs, i \in 1..MaxPending, ok \in BOOLEAN : ListenerResolve(t, i, ok)
    \/ \E e \in Emails : Submit("t2", "signIn", e, NoRole)
    \/ \E ok \in BOOLEAN : SignInAuth("t2", ok)
    \/ \E ok \in BOOLEAN : SignInGetDoc("t2", ok)
SpecStudentSwitch == InitStudentSwitch /\ [][NextStudentSwitch]_vars

TypeOK ==
    /\ \A g \in GrantIds : grants[g].status \in Statuses
    /\ Len(grants) <= MaxGrants

\* ================================================================ claims
\* the status changes of the transition table of the access-grant machine
TableTransitions ==
    {<<"pending", "approved">>, <<"pending", "denied">>, <<"approved", "revoked">>}

\* C1: every stored status is one of pending, approved, denied, revoked, a
\* request is created as pending, and every change of a stored status is
\* pending -> approved, pending -> denied or approved -> revoked.
C1_OnlyTableTransitions ==
    [][/\ \A g \in GrantIds : grants[g].status \in Statuses
       /\ \A g \in DOMAIN grants' :
            IF g \in GrantIds
            THEN \/ grants'[g].status = grants[g].status
                 \/ <<grants[g].status, grants'[g].status>> \in TableTransitions
            ELSE grants'[g].status = "pending"]_vars

\* C4: a successful revoke of an approved request changes the status and the
\* revokedDate of that request and nothing else in the document store.
C4_RevokeFrame ==
    [][\A u \in StudentUsers :
         (/\ HandleRevokeAccessResolve(u, TRUE)
          /\ grants[Head(calls[u]).id].status = "approved")
         => LET id == Head(calls[u]).id
            IN /\ students' = students
               /\ certificates' = certificates
               /\ DOMAIN grants' = DOMAIN grants
               /\ \A g \in GrantIds \ {id} : grants'[g] = grants[g]
               /\ grants'[id].status = "revoked"
               /\ grants'[id].revokedDate = Timestamp
               /\ grants'[id].companyId = grants[id].companyId
               /\ grants'[id].studentId = grants[id].studentId
               /\ grants'[id].requestDate = grants[id].requestDate
               /\ grants'[id].responseDate = grants[id].responseDate]_vars

\* a revoked request next to a request the revoke had to leave alone
C4_Witness ==
    \E g, h \in GrantIds :
        /\ g # h
        /\ grants[g].status = "revoked"
        /\ grants[g].revokedDate = Timestamp
        /\ grants[g].responseDate = Timestamp
        /\ grants[h].studentId = grants[g].studentId
        /\ grants[h].status \in {"pending", "approved"}

\* C5: once the stored status of a request is denied or revoked, no step
\* changes it.
C5_Terminal ==
    [][\A g \in GrantIds :
         grants[g].status \in {"denied", "revoked"}
         => grants'[g].status = grants[g].status]_vars

\* C10: requestDate is always set; pending has neither responseDate nor
\* revokedDate; approved and denied have a responseDate and no revokedDate;
\* revoked has a revokedDate.
C10_DateFields ==
    \A g \in GrantIds :
        /\ grants[g].requestDate # Absent
        /\ grants[g].status = "pending"
           => grants[g].responseDate = Absent /\ grants[g].revokedDate = Absent
        /\ grants[g].status \in {"approved", "denied"}
           => grants[g].responseDate # Absent /\ grants[g].revokedDate = Absent
        /\ grants[g].status = "revoked" => grants[g].revokedDate # Absent

\* the requests of the pair (c, s) stored with the given status
StoredWith(c, s, status) ==
    {g \in GrantIds : /\ grants[g].companyId = c
                      /\ grants[g].studentId = s
                      /\ grants[g].status = status}

\* C6: with the submissions of a pair one after the other (one dashboard,
\* whose submit button is disabled until the submission has finished) and the
\* student answering in between, at most one request of a (company, student)
\* pair is pending.
C6_AtMostOnePending ==
    \A c \in Companies, s \in StudentIds : Cardinality(StoredWith(c, s, "pending")) <= 1

\* a pair with a pending request next to an earlier, answered one, and a
\* further submission for it just refused
C6_Witness ==
    \E g, h \in GrantIds :
        /\ g < h
        /\ grants[g].companyId = grants[h].companyId
        /\ grants[g].studentId = grants[h].studentId
        /\ grants[g].status # "pending"
        /\ grants[h].status = "pending"
        /\ toast["t1"] = "alreadyExists"

\* C7: a submission that has passed the pre-check ends in a remote failure
\* or inserts its pending request and reports success, whatever has been
\* stored for the pair since the pre-check; two pending requests of one pair
\* are thereby stored and both submissions report success.
C7_InsertAfterPassedCheck ==
    [][/\ \A t \in Tabs :
         (sendReq[t].pc = "insert" /\ sendReq'[t].pc = "idle"
          /\ toast'[t] # "requestFailed")
         => /\ toast'[t] = "sent"
            /\ Len(grants') = Len(grants) + 1
            /\ grants'[Len(grants')].companyId = user[t]
            /\ grants'[Len(grants')].studentId = sendReq[t].student
            /\ grants'[Len(grants')].status = "pending"
       /\ \A t \in Tabs :
            (/\ OnSendRequestCheck(t, TRUE)
             /\ StoredWith(user[t], sendReq[t].student, "pending") = {}
             /\ \E o \in Tabs \ {t} : /\ user[o] = user[t]
                                      /\ sendReq[o].student = sendReq[t].student
                                      /\ sendReq[o].pc = "insert")
            => sendReq'[t].pc = "insert"]_vars

\* two pending requests of one pair, both submissions reported as sent
C7_Witness ==
    /\ \E c \in Companies, s \in StudentIds : Cardinality(StoredWith(c, s, "pending")) >= 2
    /\ \A t \in Tabs : toast[t] = "sent" /\ sendReq[t].pc = "idle"

\* C8: when the pre-check read finds a pending request of the pair, the
\* submission ends there: the document store is unchanged and the tab shows
\* 'Request already exists'.
C8_DuplicateRefused ==
    [][\A t \in Tabs :
         (/\ OnSendRequestCheck(t, TRUE)
          /\ StoredWith(user[t], sendReq[t].student, "pending") # {})
         => /\ grants' = grants
            /\ students' = students
            /\ certificates' = certificates
            /\ toast'[t] = "alreadyExists"
            /\ sendReq'[t].pc = "idle"
            /\ ~isRequesting'[t]]_vars

\* a refused submission: the notice is shown and the pair has its one
\* pending request
C8_Witness ==
    /\ toast["t1"] = "alreadyExists"
    /\ sendReq["t1"].pc = "idle"
    /\ \E c \in Companies, s \in StudentIds : StoredWith(c, s, "pending") # {}

\* C9: a submission whose pre-check finds no pending request of the pair
\* goes on to the insert, whatever approved, denied or revoked requests the
\* pair has; the insert adds exactly one request, pending, with requestDate
\* set, companyId the submitting principal and studentId the selected student,
\* and leaves the stored requests as they were.
C9_Accepted ==
    [][\A t \in Tabs :
         /\ (/\ OnSendRequestCheck(t, TRUE)
             /\ StoredWith(user[t], sendReq[t].student, "pending") = {})
            => sendReq'[t].pc = "insert" /\ grants' = grants
         /\ OnSendRequestInsert(t, TRUE)
            => /\ Len(grants') = Len(grants) + 1
               /\ \A g \in GrantIds : grants'[g] = grants[g]
               /\ grants'[Len(grants')].companyId = user[t]
               /\ grants'[Len(grants')].studentId = sendReq[t].student
               /\ grants'[Len(grants')].status = "pending"
               /\ grants'[Len(grants')].requestDate # Absent]_vars

\* a request accepted for a pair that already had an approved, a denied or a
\* revoked request
C9_Witness ==
    \E st \in {"approved", "denied", "revoked"} :
        \E g, h \in GrantIds :
            /\ g < h
            /\ grants[g].companyId = grants[h].companyId
            /\ grants[g].studentId = grants[h].studentId
            /\ grants[g].status = st
            /\ grants[h].status = "pending"
            /\ toast["t1"] = "sent"

\* students for whom the requests page holds a non-empty certificate list
CrShown(certs) == {s \in DOMAIN certs : certs[s] # {}}

\* students with an approved request in the requests page's snapshot
CrApproved(view) == {grants[g].studentId : g \in {h \in DOMAIN view : view[h] = "approved"}}

\* C2: whenever a company view reads certificates, the company is shown
\* the certificates of a student if and only if a request of that
\* (company, student) pair is approved: on the search dashboard at the read of
\* onSelectStudent, on the requests page for the requests read by
\* fetchRequests.
C2_VisibleIffApproved ==
    [][/\ \A t \in Tabs, s \in StudentIds :
            OnSelectStudent(t, s, TRUE)
            => (studentCertificates'[t] # {} <=> StoredWith(user[t], s, "approved") # {})
       /\ CrFetchCertificates(TRUE)
            => CrShown(crCertificates') = CrApproved(crRequests)]_vars

\* C3: after the approval the company's read returns all certificates of
\* the student with their digests; once the request is revoked and the pair
\* has no approved request, a read by the company returns no certificate of
\* the student.
C3_Lifecycle ==
    [][/\ \A t \in Tabs, s \in StudentIds :
            OnSelectStudent(t, s, TRUE)
            => /\ StoredWith(user[t], s, "approved") # {}
                  => studentCertificates'[t] = CertificatesOf(s)
               /\ (/\ StoredWith(user[t], s, "revoked") # {}
                   /\ StoredWith(user[t], s, "approved") = {})
                  => studentCertificates'[t] = {}
       /\ CrFetchCertificates(TRUE)
            => \A s \in StudentIds :
                 IF s \in CrApproved(crRequests)
                 THEN s \in DOMAIN crCertificates' /\ crCertificates'[s] = CertificatesOf(s)
                 ELSE s \notin DOMAIN crCertificates']_vars

\* C11: the fileHash of every stored certificate is the hash of the bytes
\* the school selected, computed before the upload starts, and the bytes
\* stored at the certificate's fileURL hash to the same value.
C11_DigestOfBytes ==
    /\ \A k \in CertIds :
          /\ PathOf(certificates[k].fileURL) \in DOMAIN files
          /\ GenerateFileHash(files[PathOf(certificates[k].fileURL)])
               = certificates[k].fileHash
    /\ \A t \in Tabs :
          upload[t].pc # "idle"
          => /\ upload[t].fileHash = GenerateFileHash(upload[t].file)
             /\ upload[t].pc = "uploadBytes" => upload[t].fileName \notin DOMAIN files
             /\ upload[t].pc = "addDoc" => files[upload[t].fileName] = upload[t].file

\* certificates issued from a one-byte and from a two-byte file, with the
\* hex strings of their digests
C11_Witness ==
    \E k, j \in CertIds :
        /\ files[PathOf(certificates[k].fileURL)] = <<5>>
        /\ certificates[k].fileHash = "0605"
        /\ files[PathOf(certificates[j].fileURL)] = <<80, 68>>
        /\ certificates[j].fileHash = "96e4"

\* C12: every issuance adds a certificate with a new identifier and a new
\* storage location and leaves the stored certificates and the stored files
\* as they were; certificates issued from the same bytes carry the same
\* fileHash.
C12_IndependentRecords ==
    [][/\ \A k \in CertIds : k \in DOMAIN certificates' /\ certificates'[k] = certificates[k]
       /\ \A f \in DOMAIN files : f \in DOMAIN files' /\ files'[f] = files[f]
       /\ \A k, j \in DOMAIN certificates' :
            /\ k # j => certificates'[k].fileURL # certificates'[j].fileURL
            /\ files'[PathOf(certificates'[k].fileURL)] = files'[PathOf(certificates'[j].fileURL)]
               => certificates'[k].fileHash = certificates'[j].fileHash]_vars

\* the same bytes issued twice to the same student
C12_Witness ==
    \E k, j \in CertIds :
        /\ k # j
        /\ certificates[k].studentId = certificates[j].studentId
        /\ certificates[k].schoolId = certificates[j].schoolId
        /\ certificates[k].fileHash = certificates[j].fileHash
        /\ certificates[k].fileURL # certificates[j].fileURL
        /\ files[PathOf(certificates[k].fileURL)] = <<80, 68>>
        /\ files[PathOf(certificates[j].fileURL)] = <<80, 68>>

\* C13: every stored certificate references a stored student whose schoolId
\* is the certificate's schoolId, the uid of the principal that issued it.
C13_CertificateOfOwnStudent ==
    \A k \in CertIds :
        /\ certificates[k].studentId \in StudentIds
        /\ students[certificates[k].studentId].schoolId = certificates[k].schoolId

\* C14: no step changes or removes a stored student or a stored certificate.
C14_WriteOnce ==
    [][/\ \A s \in StudentIds : s \in DOMAIN students' /\ students'[s] = students[s]
       /\ \A k \in CertIds : k \in DOMAIN certificates' /\ certificates'[k] = certificates[k]]_vars

\* two students enrolled one after the other and two certificates issued
\* one after the other to the first of them
C14_Witness ==
    /\ Len(students) >= 2
    /\ \E k, j \in CertIds :
          k # j /\ certificates[k].studentId = 1 /\ certificates[j].studentId = 1

\* C15: the schoolId of every stored student is the uid of the principal
\* whose handler created it, and the stored role of that principal is school.
C15_EnrolledBySchool ==
    \A s \in StudentIds :
        /\ students[s].schoolId \in DOMAIN users
        /\ users[students[s].schoolId].role = "school"

\* C16: an operation that ends in a failure of one of its remote calls
\* leaves the accounts, the document store and the file store as they were
\* when it started: a sign-up that fails leaves no account of its email that
\* was not there before, an issuance that fails leaves no file under its
\* path, and a failed enrollment changes nothing.
C16_FailureLeavesRemoteState ==
    [][\A t \in Tabs :
         /\ (authCall[t].op = "signUp" /\ authCall[t].pc # "idle"
              /\ authCall'[t].pc = "idle" /\ authError'[t] = "error")
            => /\ users' = users
               /\ authCall[t].pc = "create" => accounts' = accounts
               /\ authCall[t].pc = "setDoc" => authCall[t].email \notin accounts'
         /\ (upload[t].pc # "idle" /\ upload'[t].pc = "idle"
              /\ certificates' = certificates)
            => upload[t].fileName \notin DOMAIN files'
         /\ EnrollAddDoc(t, FALSE) => UNCHANGED <<storeVars, remoteVars>>]_vars

\* C17: a remote call that fails is reported to the user of the tab that
\* issued it, and it is not issued again: the handler or loader it belongs
\* to ends with the failure.
C17_FailuresReported ==
    [][\A t \in Tabs :
         /\ (\/ SignUpCreate(t, FALSE) \/ SignUpSetDoc(t, FALSE)
              \/ SignInAuth(t, FALSE) \/ SignInGetDoc(t, FALSE))
            => authError'[t] = "error" /\ authCall'[t].pc = "idle"
         /\ \A i \in DOMAIN roleFetch[t] :
              ListenerResolve(t, i, FALSE)
              => authError'[t] = "error" /\ Len(roleFetch'[t]) < Len(roleFetch[t])]_vars

\* C18 as stated: whenever the listener's role read for a signed-in
\* principal comes back while the tab is on the entry screen, the tab goes to
\* the dashboard of a role and holds that role.
C18_AlwaysNavigates ==
    [][\A t \in Tabs : \A i \in DOMAIN roleFetch[t] :
         (ListenerResolve(t, i, TRUE) /\ location[t] = "/" /\ ctxUser[t] # NoUser)
         => \E r \in Roles : location'[t] = "/dashboard/" \o r /\ userRole'[t] = r]_vars

\* C18 amended: every change of the signed-in principal starts a read of
\* that principal's role document in every open tab; when the read returns
\* a document the tab takes its role and, if it is on the entry screen then,
\* goes to /dashboard/<role> (a tab left without a user is sent back by the
\* dashboard's guard); when the read returns no document or fails, the tab
\* stays on the entry screen and keeps its role.
C18_ResolverNavigates ==
    [][\A t \in Tabs :
         /\ (authUser' # authUser /\ authUser' # NoUser /\ location[t] # Closed)
            => roleFetch'[t] = Append(roleFetch[t], authUser')
         /\ \A i \in DOMAIN roleFetch[t] :
              LET p == roleFetch[t][i]
              IN /\ (ListenerResolve(t, i, TRUE) /\ p \in DOMAIN users)
                    => /\ userRole'[t] = users[p].role
                       /\ (location[t] = "/" /\ ctxUser[t] # NoUser)
                          => location'[t] = "/dashboard/" \o users[p].role
                       /\ location[t] # "/" => location'[t] \in {location[t], "/"}
                 /\ (\/ ListenerResolve(t, i, FALSE)
                     \/ ListenerResolve(t, i, TRUE) /\ p \notin DOMAIN users)
                    => /\ userRole'[t] = userRole[t]
                       /\ location[t] = "/" => location'[t] = "/"]_vars

\* the listener has taken a signing-in company to its dashboard while the
\* sign-in's own role read is still out
C18_Witness ==
    /\ location["t1"] = "/dashboard/company"
    /\ userRole["t1"] = "company"
    /\ authCall["t1"].pc = "getDoc"
    /\ roleFetch["t1"] = << >>

\* C19: a stored role never changes and no document of 'users' is removed;
\* a document of 'users' is written only by the setDoc of a sign-up, for the
\* principal that sign-up has created.
C19_RoleWrittenOnce ==
    [][/\ \A p \in DOMAIN users : p \in DOMAIN users' /\ users'[p] = users[p]
       /\ users' # users
          => \E t \in Tabs :
               /\ authCall[t].op = "signUp" /\ authCall[t].pc = "setDoc"
               /\ DOMAIN users' = DOMAIN users \cup {UidOf[authCall[t].email]}
               /\ users'[UidOf[authCall[t].email]].role = authCall[t].role]_vars

\* the one registered principal, a school, has signed in again and the
\* sign-in is about to read its role
C19_Witness ==
    /\ accounts = {"e1"}
    /\ "p1" \in DOMAIN users
    /\ users["p1"].role = "school"
    /\ authUser = "p1"
    /\ authCall["t1"].op = "signIn"
    /\ authCall["t1"].pc = "getDoc"
    /\ authCall["t1"].email = "e1"

\* C20: every account of the authentication service whose sign-up has come
\* back has a document in 'users' with a role of school, student or company.
C20_EveryPrincipalHasRole ==
    \A e \in accounts :
        \/ \E t \in Tabs : authCall[t].pc = "setDoc" /\ authCall[t].email = e
        \/ /\ UidOf[e] \in DOMAIN users
           /\ users[UidOf[e]].role \in Roles

\* the render of CompanyRequests lists certificates under request g: the
\* branch for a status that is neither pending nor denied, with a non-empty
\* certificates[request.studentId]
CrListsCertificates(g) ==
    /\ crRequests[g] \notin {"pending", "denied"}
    /\ grants[g].studentId \in DOMAIN crCertificates
    /\ crCertificates[grants[g].studentId] # {}

C24_LocalEqualsStored ==
    \A u \in StudentUsers :
        (calls[u] = << >> /\ ~isLoading[u])
        => \A g \in DOMAIN requests[u] : requests[u][g] = grants[g].status

\* C25: in a tab with no sign-up or sign-in call and no listener callback
\* in flight, user null implies userRole null, and a userRole that is not
\* null is the role stored in 'users' for the tab's user.
C25_ContextConsistent ==
    \A t \in Tabs :
        (location[t] # Closed /\ roleFetch[t] = << >> /\ authCall[t].pc = "idle")
        => /\ ctxUser[t] = NoUser => userRole[t] = NoRole
           /\ userRole[t] # NoRole
              => /\ ctxUser[t] \in DOMAIN users
                 /\ users[ctxUser[t]].role = userRole[t]

\* role stored in 'users' for principal p, NoRole without a document or
\* without a principal
StoredRole(p) == IF p \in DOMAIN users THEN users[p].role ELSE NoRole

\* C27: on the school pages the enroll and upload handlers and the
\* fetchStudents read issue a remote call only on behalf of a signed-in
\* visitor whose stored role is school.
C27_GuardedPages ==
    [][\A t \in Tabs :
          /\ (\E e \in Emails : EnrollSubmit(t, e))
                => StoredRole(ctxUser[t]) = "school"
          /\ (\E s \in StudentIds, b \in Files : UploadSubmit(t, s, b))
                => StoredRole(ctxUser[t]) = "school"
          /\ Len(stuFetch'[t]) > Len(stuFetch[t])
                => StoredRole(stuFetch'[t][Len(stuFetch'[t])]) = "school"]_vars

\* C30: when fetchRequests of the student requests page has read the store,
\* the page lists every request whose StudentRecord carries the email of the
\* signed-in student, also with several StudentRecords of that email.
C30_AllOwnGrantsShown ==
    [][\A u \in StudentUsers :
          FetchRequests(u, TRUE)
          => \A g \in GrantIds :
                students[grants[g].studentId].email = UserEmail[u]
                => g \in DOMAIN requests'[u]]_vars

\* C26: on the company search dashboard, when a student is selected, no
\* certificates read is in flight and no read has been reported as failed,
\* every displayed certificate is a certificate of the selected student.
C26_DisplayedOfSelected ==
    \A t \in Tabs :
        (/\ selectedStudent[t] # NoId
         /\ certFetch[t] = << >>
         /\ toast[t] # "loadFailed")
        => \A k \in studentCertificates[t] :
              certificates[k].studentId = selectedStudent[t]

\* C28: the step in which onSendRequest, the upload onSubmit or onSearch
\* comes to its end, on whichever path, leaves isRequesting, isUploading or
\* isSearching false, and a flag is true only while its handler is running.
C28_BusyFlagsReturn ==
    [][\A t \in Tabs :
          /\ (sendReq[t].pc # "idle" /\ sendReq'[t].pc = "idle") => ~isRequesting'[t]
          /\ (upload[t].pc # "idle" /\ upload'[t].pc = "idle") => ~isUploading'[t]
          /\ (searchCall[t].pc # "idle" /\ searchCall'[t].pc = "idle") => ~isSearching'[t]
          /\ isRequesting'[t] => sendReq'[t].pc # "idle"
          /\ isUploading'[t] => upload'[t].pc # "idle"
          /\ isSearching'[t] => searchCall'[t].pc # "idle"]_vars

\* onSendRequest has returned on the duplicate path: a pending request of
\* the pair is stored, the refusal is shown and the button is enabled again
C28_Witness ==
    /\ toast["t1"] = "alreadyExists"
    /\ sendReq["t1"].pc = "idle"
    /\ ~isRequesting["t1"]
    /\ selectedStudent["t1"] # NoId
    /\ StoredWith(user["t1"], selectedStudent["t1"], "pending") # {}

\* n blanks
Blanks(n) == [k \in 1..n |-> " "]

\* q without its leading and trailing blanks: the part r of q with
\* q = blanks, r, blanks that neither starts nor ends with a blank
TrimmedQuery(q) ==
    CHOOSE r \in {SubSeq(q, i, j) : i \in 1..(Len(q) + 1), j \in 0..Len(q)} :
        /\ \E m, n \in 0..Len(q) : q = Blanks(m) \o r \o Blanks(n)
        /\ r = << >> \/ (r[1] # " " /\ r[Len(r)] # " ")

\* C29: a search that comes back sets the results to the StudentRecords
\* whose email is the trimmed term if there is one, and otherwise to those
\* whose student ID is the trimmed term; the step that starts a search
\* clears the results, the selected student and the displayed certificates.
C29_SearchResults ==
    [][\A t \in Tabs :
          /\ (\E q \in Terms : OnSearch(t, q))
                => /\ searchResults'[t] = {}
                   /\ selectedStudent'[t] = NoId
                   /\ studentCertificates'[t] = {}
          /\ ((OnSearchEmail(t, TRUE) \/ OnSearchId(t, TRUE)) /\ searchCall'[t].pc = "idle")
                => LET term == JoinChars(TrimmedQuery(searchCall[t].query))
                       byEmail == {s \in StudentIds : students[s].email = term}
                       byId == {s \in StudentIds : students[s].studentId = term}
                   IN searchResults'[t] = IF byEmail # {} THEN byEmail ELSE byId]_vars

\* the search for ' s1 ' has come back with the student whose ID is s1, and
\* before it the search for 'e1' listed the two students of that email only
C29_Witness ==
    /\ searchCall["t1"].pc = "idle"
    /\ searchCall["t1"].form = <<" ", "s", "1", " ">>
    /\ searchResults["t1"] = {1}
    /\ ~isSearching["t1"]

\* tier of the display policy: pending, then approved, then denied and revoked
PolicyTier(status) ==
    IF status = "pending" THEN 1 ELSE IF status = "approved" THEN 2 ELSE 3

\* a list that follows the display policy
InPolicyOrder(view) ==
    \A i, j \in 1..Len(view) :
        i < j => \/ PolicyTier(view[i].status) < PolicyTier(view[j].status)
                 \/ /\ PolicyTier(view[i].status) = PolicyTier(view[j].status)
                    /\ view[i].requestDate >= view[j].requestDate

\* the rows of a list
Rows(view) == {view[i] : i \in 1..Len(view)}

\* C21: the list of the student page and the list of the company page both
\* follow the display policy (pending, approved, then denied and revoked as
\* one tier, most recent requestDate first within a tier), and they are the
\* same list whenever they show the same requests.
C21_SameOrder ==
    /\ InPolicyOrder(stuView)
    /\ InPolicyOrder(crView)
    /\ Rows(stuView) = Rows(crView) => stuView = crView

\* C23: every approve, deny or revoke started on the student requests page is
\* started by a signed-in principal whose stored role is student, for a
\* request whose studentId is the student document resolved for that
\* principal's email.
C23_OnlyOwnStudent ==
    [][\A u \in StudentUsers :
          Len(calls'[u]) > Len(calls[u])
          => /\ authUser # NoUser
             /\ StoredRole(authUser) = "student"
             /\ grants[calls'[u][Len(calls'[u])].id].studentId
                   = StudentDocOf(EmailOf(authUser))]_vars

====
